---------------------------- MODULE Spec2Model ----------------------------
(***************************************************************************)
(* Model of the chatbot server (src/server.js): the in-memory config store *)
(* with its snapshot file, the admin create/list endpoints, and the chat   *)
(* message endpoint with its logging to the messages/conversations tables. *)
(*                                                                         *)
(* JavaScript values are represented as follows.                           *)
(*   - a text is a sequence of string chunks; a user message is spelled    *)
(*     one character per chunk, so that toLowerCase() and includes() are   *)
(*     computed, and a fixed text of the server is a single chunk;         *)
(*   - an object is a function from its present keys to their values, so   *)
(*     a missing key is a key outside DOMAIN;                              *)
(*   - an optional value is the empty sequence (undefined) or a sequence   *)
(*     of one element;                                                     *)
(*   - a Map is the sequence of its values in insertion order.             *)
(***************************************************************************)
EXTENDS Integers, Sequences, FiniteSets, TLC

(***************************************************************************)
(* Bounds of the model.                                                    *)
(***************************************************************************)
MaxCreates == 2
MaxRequests == 2

CreateSlots == 1..MaxCreates
Requests == 1..MaxRequests

Range(s) == { s[i] : i \in 1..Len(s) }

None == << >>
Some(v) == << v >>

(***************************************************************************)
(* Tenant configurations.                                                  *)
(***************************************************************************)
\* `bot_${Date.now()}_${Math.random().toString(36).substr(2, 9)}`
RandomSuffixes == { "k3f9", "i" }

ChatbotId(t, rnd) == [time |-> t, suffix |-> rnd]

DefaultCustomization(businessName) ==
  [ primaryColor |-> "#E53935",
    accentColor |-> "#26C6DA",
    welcomeMessage |-> <<"Aloha! I'm here to help with any questions about ", businessName>> ]

\* customization || { ...defaults }
CustomizationOrDefault(customization, businessName) ==
  IF customization # None THEN customization[1] ELSE DefaultCustomization(businessName)

NewConfig(chatbotId, body, t) ==
  [ id |-> chatbotId,
    clientName |-> body.clientName,
    businessName |-> body.businessName,
    businessInfo |-> body.businessInfo,
    knowledgeBase |-> body.knowledgeBase,
    customization |-> CustomizationOrDefault(body.customization, body.businessName),
    createdAt |-> t,
    active |-> TRUE ]

\* The request bodies the admin endpoint is driven with: no customization, one
\* with primaryColor only, and the one create-hostel-bot.js sends (no accentColor).

CreateBody(info, customization) ==
  [ clientName |-> "My Hawaii Hostel",
    businessName |-> "My Hawaii Hostel",
    businessInfo |-> info,
    knowledgeBase |-> "Free WiFi throughout",
    customization |-> customization ]

CreateBodies ==
  { CreateBody("Phone: (808) 374-2131", None),
    CreateBody("CHECK-IN: 3pm", Some([primaryColor |-> "#0066FF"])),
    CreateBody("Phone: (808) 374-2131",
               Some([primaryColor |-> "#0066FF",
                     welcomeMessage |-> <<"Aloha! I'm the AI assistant">>])) }

(***************************************************************************)
(* The Map chatbotConfigs.                                                 *)
(***************************************************************************)
MapHas(m, k) == \E i \in 1..Len(m) : m[i].id = k

MapIndex(m, k) == CHOOSE i \in 1..Len(m) : m[i].id = k

\* Map.prototype.get: the value, or undefined
MapGet(m, k) == IF MapHas(m, k) THEN Some(m[MapIndex(m, k)]) ELSE None

\* Map.prototype.set: an existing key keeps its place and takes the new value
MapSet(m, k, v) ==
  IF MapHas(m, k) THEN [m EXCEPT ![MapIndex(m, k)] = v] ELSE Append(m, v)

\* Array.from(chatbotConfigs.values())
MapValues(m) == m

(***************************************************************************)
(* Snapshots: the content of ./chatbot-configs.json or of the environment  *)
(* variable CHATBOT_CONFIGS.                                               *)
(***************************************************************************)
Absent == [kind |-> "absent"]
Unparsable == [kind |-> "unparsable"]
JsonObject == [kind |-> "object"]
JsonArray(elems) == [kind |-> "array", elems |-> elems]
JsonNull == [jsonNull |-> TRUE]

SavedConfig(rnd, info) ==
  [ id |-> ChatbotId(0, rnd),
    clientName |-> "My Hawaii Hostel",
    businessName |-> "My Hawaii Hostel",
    businessInfo |-> info,
    knowledgeBase |-> "Free WiFi throughout",
    customization |-> DefaultCustomization("My Hawaii Hostel"),
    createdAt |-> 0,
    active |-> TRUE ]

\* configs.forEach(config => chatbotConfigs.set(config.id, config)): reading
\* config.id of a null element throws, and the entries set before it stay.
RECURSIVE ForEachSet(_, _)
ForEachSet(m, elems) ==
  IF elems = << >> THEN [map |-> m, threw |-> FALSE]
  ELSE IF Head(elems) = JsonNull THEN [map |-> m, threw |-> TRUE]
  ELSE ForEachSet(MapSet(m, Head(elems).id, Head(elems)), Tail(elems))

\* JSON.parse(text) followed by the forEach, inside one try block
TryLoad(m, snapshot) ==
  IF snapshot.kind = "array" THEN ForEachSet(m, snapshot.elems)
  ELSE [map |-> m, threw |-> TRUE]

LoadFromFile(m, environment, fileContent) ==
  IF environment.VERCEL THEN m ELSE TryLoad(m, fileContent).map

loadConfigs(m, environment, fileContent) ==
  IF environment.CHATBOT_CONFIGS # Absent
  THEN LET fromEnv == TryLoad(m, environment.CHATBOT_CONFIGS)
       IN IF ~fromEnv.threw THEN fromEnv.map
          ELSE LoadFromFile(fromEnv.map, environment, fileContent)
  ELSE LoadFromFile(m, environment, fileContent)


(***************************************************************************)
(* State.                                                                  *)
(***************************************************************************)
VARIABLES
  env,             \* process.env: CHATBOT_CONFIGS and VERCEL
  file,            \* the content of ./chatbot-configs.json
  serverPc,        \* "boot" before `await loadConfigs()` has run, then "listening"
  chatbotConfigs,  \* the Map of configs
  now,             \* the clock read by Date.now()
  createReq,       \* the create-chatbot requests: position, locals while the
                   \* handler runs, and the response once it is sent
  listed,          \* the body of the last GET /api/admin/chatbots response
  chatReq,         \* the chat message requests: position, locals and response
  messages,        \* the rows of the messages table, in insertion order
  conversations,   \* the rows of the conversations table
  analytics        \* the last analytics request and its response

chatVars == <<chatReq, messages, conversations, analytics>>
vars == <<env, file, serverPc, chatbotConfigs, now, createReq, listed,
          chatReq, messages, conversations, analytics>>

IdleCreate ==
  [ pc |-> "idle", body |-> None, chatbotId |-> None, configs |-> << >>,
    saveError |-> FALSE, response |-> None ]

IdleChat ==
  [ pc |-> "idle", chatbotId |-> None, conversationId |-> None, userMessage |-> None,
    systemPrompt |-> None, completion |-> None, botResponse |-> None,
    existingConv |-> None, failed |-> {}, response |-> None ]

InitWith(starts) ==
  /\ \E s \in starts : env = s.env /\ file = s.file
  /\ serverPc = "boot"
  /\ chatbotConfigs = << >>
  /\ now = 0
  /\ createReq = [r \in CreateSlots |-> IdleCreate]
  /\ listed = None
  /\ chatReq = [r \in Requests |-> IdleChat]
  /\ messages = << >>
  /\ conversations = {}
  /\ analytics = None

(***************************************************************************)
(* Process start and restart.                                              *)
(***************************************************************************)
\* await loadConfigs(), then the server listens
LoadConfigs ==
  /\ serverPc = "boot"
  /\ chatbotConfigs' = loadConfigs(chatbotConfigs, env, file)
  /\ serverPc' = "listening"
  /\ UNCHANGED <<env, file, now, createReq, listed>>
  /\ UNCHANGED chatVars

\* The process is stopped while no request is being handled and started again:
\* the module state is constructed anew, the file and the environment stay.
Restart ==
  /\ serverPc = "listening"
  /\ \A r \in CreateSlots : createReq[r].pc # "saving"
  /\ \A r \in Requests : chatReq[r].pc \in {"idle", "done"}
  /\ serverPc' = "boot"
  /\ chatbotConfigs' = << >>
  /\ UNCHANGED <<env, file, now, createReq, listed>>
  /\ UNCHANGED chatVars

(***************************************************************************)
(* POST /api/admin/create-chatbot                                          *)
(***************************************************************************)
CreateOk(chatbotId) ==
  [status |-> 200, body |-> [success |-> TRUE, chatbotId |-> chatbotId]]

\* the catch block of the handler
CreateCatch ==
  [status |-> 500, body |-> [error |-> "Failed to create chatbot"]]

\* The handler up to `await saveConfigs()`: the config is built and set in the
\* Map, and saveConfigs() either returns at once (VERCEL) or takes the array of
\* values and starts fs.writeFile.  Date.now() reads the clock; the next request
\* arrives in the same millisecond (tick = 0) or in a later one.
CreateChatbot(r, body, rnd, tick) ==
  /\ serverPc = "listening"
  /\ createReq[r].pc = "idle"
  /\ \A q \in CreateSlots : q < r => createReq[q].pc # "idle"
  /\ now' = now + tick
  /\ LET chatbotId == ChatbotId(now, rnd)
         config == NewConfig(chatbotId, body, now)
         stored == MapSet(chatbotConfigs, chatbotId, config)
     IN /\ chatbotConfigs' = stored
        /\ createReq' = [createReq EXCEPT ![r] =
             [IdleCreate EXCEPT !.pc = "saving", !.body = Some(body),
                                !.chatbotId = Some(chatbotId),
                                !.configs = IF env.VERCEL THEN << >> ELSE MapValues(stored)]]
  /\ UNCHANGED <<env, file, serverPc, listed>>
  /\ UNCHANGED chatVars

\* saveConfigs() returned without writing (VERCEL): the handler responds
SaveSkipped(r) ==
  /\ createReq[r].pc = "saving"
  /\ env.VERCEL
  /\ createReq' = [createReq EXCEPT ![r] =
       [IdleCreate EXCEPT !.pc = "done",
                          !.response = Some(CreateOk(createReq[r].chatbotId[1]))]]
  /\ UNCHANGED <<env, file, serverPc, chatbotConfigs, now, listed>>
  /\ UNCHANGED chatVars

\* fs.writeFile resolves: the file holds the array this request took
WriteFileResolves(r) ==
  /\ createReq[r].pc = "saving"
  /\ ~env.VERCEL
  /\ file' = JsonArray(createReq[r].configs)
  /\ createReq' = [createReq EXCEPT ![r] =
       [IdleCreate EXCEPT !.pc = "done",
                          !.response = Some(CreateOk(createReq[r].chatbotId[1]))]]
  /\ UNCHANGED <<env, serverPc, chatbotConfigs, now, listed>>
  /\ UNCHANGED chatVars

\* fs.writeFile rejects: the file is as it was, or holds a part of the text;
\* the rejection leaves saveConfigs and reaches the handler's catch block.
WriteFileRejects(r, partial) ==
  /\ createReq[r].pc = "saving"
  /\ ~env.VERCEL
  /\ file' = IF partial THEN Unparsable ELSE file
  /\ createReq' = [createReq EXCEPT ![r] =
       [IdleCreate EXCEPT !.pc = "done", !.saveError = TRUE,
                          !.response = Some(CreateCatch)]]
  /\ UNCHANGED <<env, serverPc, chatbotConfigs, now, listed>>
  /\ UNCHANGED chatVars

(***************************************************************************)
(* GET /api/admin/chatbots                                                 *)
(***************************************************************************)
\* ListEntry without the projection: the whole config is sent
ListEntryWholeConfig(c) == c

ListEntry(c) ==
  [ id |-> c.id,
    clientName |-> c.clientName,
    businessName |-> c.businessName,
    createdAt |-> c.createdAt,
    active |-> c.active ]

ListChatbots(m) == [i \in 1..Len(MapValues(m)) |-> ListEntry(MapValues(m)[i])]

AdminListChatbots ==
  /\ serverPc = "listening"
  /\ listed # Some(ListChatbots(chatbotConfigs))
  /\ listed' = Some(ListChatbots(chatbotConfigs))
  /\ UNCHANGED <<env, file, serverPc, chatbotConfigs, now, createReq>>
  /\ UNCHANGED chatVars

(***************************************************************************)
(* The config store: start, create, list, restart.                         *)
(***************************************************************************)
Start(blob, vercel, fileContent) ==
  [env |-> [CHATBOT_CONFIGS |-> blob, VERCEL |-> vercel], file |-> fileContent]

EnvConfigs == <<SavedConfig("env1", "CHECK-IN: 3pm")>>
FileConfigs == <<SavedConfig("old1", "CHECK-IN: 3pm")>>

\* The deployments and snapshots the process is started on.
StoreStarts ==
  { Start(Absent, FALSE, Absent),
    Start(Absent, FALSE, Unparsable),
    Start(Absent, FALSE, JsonObject),
    Start(Absent, FALSE, JsonArray(FileConfigs)),
    Start(Absent, FALSE, JsonArray(FileConfigs \o <<JsonNull>>)),
    Start(Unparsable, FALSE, JsonArray(FileConfigs)),
    Start(JsonArray(EnvConfigs \o <<JsonNull>>), FALSE, JsonArray(FileConfigs)),
    Start(JsonArray(EnvConfigs), TRUE, Absent),
    Start(Absent, TRUE, Absent) }

StoreInit == InitWith(StoreStarts)

StoreNext ==
  \/ LoadConfigs
  \/ Restart
  \/ \E r \in CreateSlots, body \in CreateBodies, rnd \in RandomSuffixes, tick \in {0, 1} :
       CreateChatbot(r, body, rnd, tick)
  \/ \E r \in CreateSlots : SaveSkipped(r)
  \/ \E r \in CreateSlots : WriteFileResolves(r)
  \/ \E r \in CreateSlots, partial \in BOOLEAN : WriteFileRejects(r, partial)
  \/ AdminListChatbots

StoreSpec == StoreInit /\ [][StoreNext]_vars


(***************************************************************************)
(* POST /api/chat/:chatbotId/message: texts, intent and system prompt.     *)
(***************************************************************************)
\* req.body.message when the body has no message
UndefinedMessage == <<"undefined">>

IsString(text) == text # UndefinedMessage

UpperCase == <<"A","B","C","D","E","F","G","H","I","J","K","L","M",
               "N","O","P","Q","R","S","T","U","V","W","X","Y","Z">>
LowerCase == <<"a","b","c","d","e","f","g","h","i","j","k","l","m",
               "n","o","p","q","r","s","t","u","v","w","x","y","z">>

LowerChar(c) ==
  IF \E i \in 1..Len(UpperCase) : UpperCase[i] = c
  THEN LowerCase[CHOOSE i \in 1..Len(UpperCase) : UpperCase[i] = c]
  ELSE c

\* String.prototype.toLowerCase
ToLowerCase(text) == [i \in 1..Len(text) |-> LowerChar(text[i])]

\* String.prototype.includes
Includes(text, word) ==
  \E i \in 0..(Len(text) - Len(word)) :
    \A j \in 1..Len(word) : text[i + j] = word[j]

PriceWords ==
  { <<"p","r","i","c","e">>, <<"c","o","s","t">>, <<"r","a","t","e">>,
    <<"e","x","p","e","n","s","i","v","e">> }
AvailabilityWords ==
  { <<"a","v","a","i","l","a","b","l","e">>, <<"b","o","o","k">>,
    <<"r","e","s","e","r","v","e">> }
RoomWords ==
  { <<"r","o","o","m">>, <<"b","e","d">>, <<"d","o","r","m">>,
    <<"p","r","i","v","a","t","e">> }

IsPriceInquiry(lower) == \E w \in PriceWords : Includes(lower, w)
IsAvailabilityInquiry(lower) == \E w \in AvailabilityWords : Includes(lower, w)
IsRoomInquiry(lower) == \E w \in RoomWords : Includes(lower, w)

\* IsSalesMode leaving the room inquiry out
IsSalesModeWithoutRoom(lower) ==
  IsPriceInquiry(lower) \/ IsAvailabilityInquiry(lower)

IsSalesMode(lower) ==
  IsPriceInquiry(lower) \/ IsAvailabilityInquiry(lower) \/ IsRoomInquiry(lower)

SalesStyle == "Be enthusiastic and helpful"
InformationalStyle == "Be friendly and helpful"

\* The template of the system prompt, as the values it is filled with.
SystemPrompt(config, userMessage) ==
  [ businessName |-> config.businessName,
    businessInfo |-> config.businessInfo,
    knowledgeBase |-> config.knowledgeBase,
    style |-> IF IsSalesMode(ToLowerCase(userMessage)) THEN SalesStyle
              ELSE InformationalStyle ]

FallbackText ==
  <<"I'm sorry, I encountered an error. Please try again or contact us directly at (808) 374-2131.">>

(***************************************************************************)
(* POST /api/chat/:chatbotId/message: the responses.                       *)
(***************************************************************************)
\* ConfigFound without the check
ConfigFoundAlways(config) == TRUE

\* if (!config) return ...
ConfigFound(config) == config # None

ChatNotFound == [status |-> 404, body |-> [error |-> "Chatbot not found"]]

\* ChatCatch sending the error it caught instead of the fixed text
ChatCatchRawError == [status |-> 500, body |-> [error |-> "Internal Server Error"]]

\* the catch block of the handler
ChatCatch == [status |-> 500, body |-> [response |-> FallbackText]]

\* ChatReply answering with the fallback when a logging step returned an error
ChatReplyUnlessLogFailed(botResponse, failed) ==
  IF failed # {} THEN ChatCatch
  ELSE [status |-> 200, body |-> [response |-> botResponse]]

\* res.json({ response: botResponse }): the errors the logging steps returned
\* (failed) were reported on the console and are not consulted.
ChatReply(botResponse, failed) == [status |-> 200, body |-> [response |-> botResponse]]

(***************************************************************************)
(* The messages and conversations tables.  A call of the database client   *)
(* returns {data, error}; it does not throw.                               *)
(***************************************************************************)
MessageRow(conversationId, chatbotId, role, content) ==
  [conversation_id |-> conversationId, chatbot_id |-> chatbotId,
   role |-> role, content |-> content]

\* InsertMessage putting the row before the rows of the table
InsertMessageFirst(rows, row) == <<row>> \o rows

\* .from('messages').insert(row): the row is the newest of the table
InsertMessage(rows, row) == Append(rows, row)

\* message_count of a new conversation
NewConversationCount == 2

ConversationRow(conversationId, chatbotId) ==
  [id |-> conversationId, chatbot_id |-> chatbotId,
   message_count |-> NewConversationCount, language_detected |-> "en", ended_at |-> None]

\* UpdatedCount starting over
UpdatedCountReset(messageCount) == NewConversationCount

\* message_count: existingConv.message_count + 2
UpdatedCount(messageCount) == messageCount + 2

HasConversation(rows, conversationId) == \E row \in rows : row.id = conversationId

ConversationOf(rows, conversationId) == CHOOSE row \in rows : row.id = conversationId

\* .select('message_count').eq('id', conversationId).single()
SelectSingle(rows, conversationId, ok) ==
  IF ok /\ HasConversation(rows, conversationId)
  THEN Some([message_count |-> ConversationOf(rows, conversationId).message_count])
  ELSE None

\* .update({message_count, ended_at}).eq('id', conversationId)
UpdateConversation(rows, conversationId, messageCount, t) ==
  { IF row.id = conversationId
    THEN [row EXCEPT !.message_count = messageCount, !.ended_at = Some(t)]
    ELSE row : row \in rows }

\* .insert({id, chatbot_id, message_count: 2, language_detected: 'en'}): id is
\* the key of the table, a second row of the same id is refused
InsertConversation(rows, conversationId, chatbotId) ==
  IF HasConversation(rows, conversationId) THEN rows
  ELSE rows \cup {ConversationRow(conversationId, chatbotId)}

(***************************************************************************)
(* POST /api/chat/:chatbotId/message: the handler, one action per await.   *)
(***************************************************************************)
\* The response is sent: the locals of the handler are gone, the request keeps
\* its path parameter, its conversation id, and what happened to it.
Finished(r, failed, botResponse, response) ==
  [IdleChat EXCEPT !.pc = "done", !.chatbotId = chatReq[r].chatbotId,
                   !.conversationId = chatReq[r].conversationId,
                   !.failed = failed, !.botResponse = botResponse,
                   !.response = Some(response)]

\* The request arrives: the config is looked up; an unknown id is answered at
\* once, otherwise the insert of the user message is sent.
ReceiveMessage(r, input) ==
  /\ serverPc = "listening"
  /\ chatReq[r].pc = "idle"
  /\ \A q \in Requests : q < r => chatReq[q].pc # "idle"
  /\ chatReq' = [chatReq EXCEPT ![r] =
       IF ~ConfigFound(MapGet(chatbotConfigs, input.chatbotId))
       THEN [IdleChat EXCEPT !.pc = "done", !.chatbotId = Some(input.chatbotId),
                             !.conversationId = Some(input.conversationId),
                             !.response = Some(ChatNotFound)]
       ELSE [IdleChat EXCEPT !.pc = "logUser", !.chatbotId = Some(input.chatbotId),
                             !.conversationId = Some(input.conversationId),
                             !.userMessage = Some(input.message)]]
  /\ UNCHANGED <<env, file, serverPc, chatbotConfigs, now, createReq, listed, analytics>>
  /\ UNCHANGED <<messages, conversations>>

\* The insert of the user message returns (ok, or an error that is reported);
\* then the intent is detected and the prompt composed, which throws to the
\* catch block when the message is no string or there is no config, and the
\* completion is requested.
LogUserMessage(r, ok) ==
  /\ chatReq[r].pc = "logUser"
  /\ LET req == chatReq[r]
         config == MapGet(chatbotConfigs, req.chatbotId[1])
         failed == IF ok THEN req.failed ELSE req.failed \cup {"user"}
     IN /\ messages' =
             IF ok THEN InsertMessage(messages,
                                      MessageRow(req.conversationId[1], req.chatbotId[1],
                                                 "user", req.userMessage[1]))
             ELSE messages
        /\ chatReq' = [chatReq EXCEPT ![r] =
             IF ~IsString(req.userMessage[1]) \/ config = None
             THEN Finished(r, failed \cup {"throw"}, None, ChatCatch)
             ELSE [req EXCEPT !.pc = "complete", !.failed = failed,
                              !.systemPrompt = Some(SystemPrompt(config[1], req.userMessage[1]))]]
  /\ UNCHANGED <<env, file, serverPc, chatbotConfigs, now, createReq, listed, analytics>>
  /\ UNCHANGED conversations

\* openai.chat.completions.create resolves with a reply
CompletionResolves(r, reply) ==
  /\ chatReq[r].pc = "complete"
  /\ chatReq' = [chatReq EXCEPT ![r].pc = "logBot", ![r].completion = Some(reply),
                                ![r].botResponse = Some(reply)]
  /\ UNCHANGED <<env, file, serverPc, chatbotConfigs, now, createReq, listed, analytics>>
  /\ UNCHANGED <<messages, conversations>>

\* openai.chat.completions.create rejects, or resolves with no choices[0]:
\* the error reaches the catch block
CompletionFails(r) ==
  /\ chatReq[r].pc = "complete"
  /\ chatReq' = [chatReq EXCEPT ![r] =
       Finished(r, chatReq[r].failed \cup {"provider"}, None, ChatCatch)]
  /\ UNCHANGED <<env, file, serverPc, chatbotConfigs, now, createReq, listed, analytics>>
  /\ UNCHANGED <<messages, conversations>>

\* The insert of the assistant message returns; the select is sent.
LogBotMessage(r, ok) ==
  /\ chatReq[r].pc = "logBot"
  /\ LET req == chatReq[r]
     IN /\ messages' =
             IF ok THEN InsertMessage(messages,
                                      MessageRow(req.conversationId[1], req.chatbotId[1],
                                                 "assistant", req.botResponse[1]))
             ELSE messages
        /\ chatReq' = [chatReq EXCEPT ![r].pc = "select",
                         ![r].failed = IF ok THEN req.failed ELSE req.failed \cup {"assistant"}]
  /\ UNCHANGED <<env, file, serverPc, chatbotConfigs, now, createReq, listed, analytics>>
  /\ UNCHANGED conversations

\* The select of the conversation returns; the update or the insert is sent.
SelectConversation(r, ok) ==
  /\ chatReq[r].pc = "select"
  /\ LET req == chatReq[r]
     IN chatReq' = [chatReq EXCEPT ![r].pc = "upsert",
                      ![r].existingConv = SelectSingle(conversations, req.conversationId[1], ok),
                      ![r].failed = IF ok THEN req.failed ELSE req.failed \cup {"select"}]
  /\ UNCHANGED <<env, file, serverPc, chatbotConfigs, now, createReq, listed, analytics>>
  /\ UNCHANGED <<messages, conversations>>

\* The update or the insert returns, and the reply is sent.
UpsertConversation(r, ok) ==
  /\ chatReq[r].pc = "upsert"
  /\ LET req == chatReq[r]
         written ==
           IF ~ok THEN conversations
           ELSE IF req.existingConv # None
           THEN UpdateConversation(conversations, req.conversationId[1],
                                   UpdatedCount(req.existingConv[1].message_count), now)
           ELSE InsertConversation(conversations, req.conversationId[1], req.chatbotId[1])
         refused == req.existingConv = None /\ HasConversation(conversations, req.conversationId[1])
         failed == IF ~ok THEN req.failed \cup {"upsert"}
                   ELSE IF refused THEN req.failed \cup {"conflict"}
                   ELSE req.failed
     IN /\ conversations' = written
        /\ chatReq' = [chatReq EXCEPT ![r] =
             Finished(r, failed, req.botResponse, ChatReply(req.botResponse[1], failed))]
  /\ UNCHANGED <<env, file, serverPc, chatbotConfigs, now, createReq, listed, analytics>>
  /\ UNCHANGED messages

(***************************************************************************)
(* The chat endpoint on a store loaded from the file: requests that        *)
(* overlap (Spec), and requests handled one after another (SeqSpec).       *)
(***************************************************************************)
KnownChatbot == FileConfigs[1].id
UnknownChatbot == ChatbotId(0, "gone")

ChatInput(chatbotId, conversationId, message) ==
  [chatbotId |-> chatbotId, conversationId |-> conversationId, message |-> message]

Hello == <<"H","e","l","l","o">>
WhatsThePrice ==
  <<"W","h","a","t","'","s"," ","t","h","e"," ","p","r","i","c","e","?">>

ChatInputs ==
  { ChatInput(KnownChatbot, "conv_1", Hello),
    ChatInput(KnownChatbot, "conv_2", WhatsThePrice),
    ChatInput(KnownChatbot, "conv_1", UndefinedMessage),
    ChatInput(UnknownChatbot, "conv_1", Hello) }

Replies == { <<"We open at 9am">> }

ChatStarts == { Start(Absent, FALSE, JsonArray(FileConfigs)) }

Init == InitWith(ChatStarts)

NoRequestInFlight == \A r \in Requests : chatReq[r].pc \in {"idle", "done"}

HandlerStep ==
  \/ \E r \in Requests, ok \in BOOLEAN : LogUserMessage(r, ok)
  \/ \E r \in Requests, reply \in Replies : CompletionResolves(r, reply)
  \/ \E r \in Requests : CompletionFails(r)
  \/ \E r \in Requests, ok \in BOOLEAN : LogBotMessage(r, ok)
  \/ \E r \in Requests, ok \in BOOLEAN : SelectConversation(r, ok)
  \/ \E r \in Requests, ok \in BOOLEAN : UpsertConversation(r, ok)

Next ==
  \/ LoadConfigs
  \/ \E r \in Requests, input \in ChatInputs : ReceiveMessage(r, input)
  \/ HandlerStep

Spec == Init /\ [][Next]_vars

SeqNext ==
  \/ LoadConfigs
  \/ \E r \in Requests, input \in ChatInputs : NoRequestInFlight /\ ReceiveMessage(r, input)
  \/ HandlerStep

SeqSpec == Init /\ [][SeqNext]_vars

(***************************************************************************)
(* Intent detection over a set of messages: requests of one conversation,  *)
(* handled one after another.                                              *)
(***************************************************************************)
BookAPrivateRoom ==
  <<"B","o","o","k"," ","a"," ","p","r","i","v","a","t","e"," ","r","o","o","m">>
ExpensiveBedToReserve ==
  <<"E","X","P","E","N","S","I","V","E"," ","b","e","d"," ","t","o"," ","R","E","S","E","R","V","E","?">>
DormBeds ==
  <<"D","o","r","m"," ","b","e","d","s","?">>
WeOperate ==
  <<"W","e"," ","o","p","e","r","a","t","e">>
Pric ==
  <<"p","r","i","c">>
Reservation ==
  <<"R","e","s","e","r","v","a","t","i","o","n"," ","a","v","a","i","l">>

IntentMessages ==
  { Hello, WhatsThePrice, BookAPrivateRoom, ExpensiveBedToReserve, DormBeds,
    WeOperate, Pric, Reservation }

IntentInputs == { ChatInput(KnownChatbot, "conv_1", m) : m \in IntentMessages }

IntentNext ==
  \/ LoadConfigs
  \/ \E r \in Requests, input \in IntentInputs : NoRequestInFlight /\ ReceiveMessage(r, input)
  \/ HandlerStep

IntentSpec == Init /\ [][IntentNext]_vars

(***************************************************************************)
(* GET /api/analytics/:chatbotId                                           *)
(***************************************************************************)
MaxTableLen == 3

QuestionLength == 100
TopQuestionsLimit == 10
RecentMessagesLimit == 20

Min(a, b) == IF a <= b THEN a ELSE b

Reverse(seq) == [i \in 1..Len(seq) |-> seq[Len(seq) + 1 - i]]

\* String.prototype.substring(start, end) and Array.prototype.slice(start, end)
Substring(text, start, end) == SubSeq(text, start + 1, Min(end, Len(text)))
Slice(seq, start, end) == SubSeq(seq, start + 1, Min(end, Len(seq)))

\* .eq('chatbot_id', chatbotId).gte('created_at', startDate)
\* .order('created_at', { ascending: false }): the rows of the tenant from
\* the first row created in the window on, newest first
SelectMessages(rows, chatbotId, windowStart) ==
  Reverse(SelectSeq(SubSeq(rows, windowStart, Len(rows)),
                    LAMBDA m : m.chatbot_id = chatbotId))

\* .eq('chatbot_id', chatbotId).gte('started_at', startDate) over the rows
\* started in the window
SelectConversations(started, chatbotId) == { c \in started : c.chatbot_id = chatbotId }

Digits == <<"0","1","2","3","4","5","6","7","8","9">>
IsDigit(c) == \E d \in 1..10 : Digits[d] = c
DigitValue(c) == (CHOOSE d \in 1..10 : Digits[d] = c) - 1

\* the decimal numerals a and b of one length, compared as numbers
NumeralLess(a, b) ==
  \E i \in 1..Len(a) :
    /\ \A j \in 1..(i - 1) : a[j] = b[j]
    /\ DigitValue(a[i]) < DigitValue(b[i])

IndexLess(a, b) == Len(a) < Len(b) \/ (Len(a) = Len(b) /\ NumeralLess(a, b))

MaxArrayIndex == <<"4","2","9","4","9","6","7","2","9","4">>

\* a property key that is an array index: the canonical numeral of an
\* integer from 0 to 2^32 - 2
IsArrayIndex(key) ==
  /\ Len(key) >= 1
  /\ \A i \in 1..Len(key) : IsDigit(key[i])
  /\ Len(key) > 1 => key[1] # "0"
  /\ key = MaxArrayIndex \/ IndexLess(key, MaxArrayIndex)

\* questionCounts[question] = (questionCounts[question] || 0) + 1, on the
\* properties of the object in the order they were created
CountQuestion(obj, question) ==
  IF \E i \in 1..Len(obj) : obj[i].question = question
  THEN [i \in 1..Len(obj) |->
          IF obj[i].question = question
          THEN [obj[i] EXCEPT !.count = obj[i].count + 1] ELSE obj[i]]
  ELSE Append(obj, [question |-> question, count |-> 1])

RECURSIVE QuestionCounts(_, _)
\* userMessages.forEach over the first n messages
QuestionCounts(userMessages, n) ==
  IF n = 0 THEN << >>
  ELSE CountQuestion(QuestionCounts(userMessages, n - 1),
                     Substring(userMessages[n].content, 0, QuestionLength))

\* Object.entries: the array-index keys in ascending numeric order, then the
\* other keys in the order they were created
ObjectEntries(obj) ==
  LET indexed == SelectSeq(obj, LAMBDA e : IsArrayIndex(e.question))
      others == SelectSeq(obj, LAMBDA e : ~IsArrayIndex(e.question))
      Place(i) == 1 + Cardinality({ j \in 1..Len(indexed) :
                                      IndexLess(indexed[j].question, indexed[i].question) })
  IN [k \in 1..Len(indexed) |-> indexed[CHOOSE i \in 1..Len(indexed) : Place(i) = k]]
     \o others

\* .sort((a, b) => b[1] - a[1]): by count, descending; the sort is stable
SortByCount(entries) ==
  LET Place(i) == 1 + Cardinality({ j \in 1..Len(entries) :
                      \/ entries[j].count > entries[i].count
                      \/ entries[j].count = entries[i].count /\ j < i })
  IN [k \in 1..Len(entries) |-> entries[CHOOSE i \in 1..Len(entries) : Place(i) = k]]

TopQuestions(fetched) ==
  LET userMessages == SelectSeq(fetched, LAMBDA m : m.role = "user")
      questionCounts == QuestionCounts(userMessages, Len(userMessages))
  IN Slice(SortByCount(ObjectEntries(questionCounts)), 0, TopQuestionsLimit)

AnalyticsSummary(fetchedConversations, fetched) ==
  [ status |-> 200,
    body |-> [ totalConversations |-> Cardinality(fetchedConversations),
               totalMessages |-> Len(fetched),
               topQuestions |-> TopQuestions(fetched),
               recentMessages |-> Slice(fetched, 0, RecentMessagesLimit) ] ]

AnalyticsCatch == [status |-> 500, body |-> [error |-> "Failed to fetch analytics"]]

\* The whole handler: both queries, the aggregation and the response.
\* windowStart is the place of the first row created on or after startDate,
\* started the conversations started on or after it.
GetAnalytics(chatbotId, windowStart, started, convOk, msgOk) ==
  /\ serverPc = "listening"
  /\ windowStart \in 1..(Len(messages) + 1)
  /\ started \subseteq conversations
  /\ analytics' = Some(
       [ chatbotId |-> chatbotId, windowStart |-> windowStart,
         response |->
           IF ~convOk \/ ~msgOk THEN AnalyticsCatch
           ELSE AnalyticsSummary(SelectConversations(started, chatbotId),
                                 SelectMessages(messages, chatbotId, windowStart)) ])
  /\ UNCHANGED <<env, file, serverPc, chatbotConfigs, now, createReq, listed>>
  /\ UNCHANGED <<chatReq, messages, conversations>>

\* The logged messages the endpoint is asked about.
Seven == <<"7">>
LongQuestion(last) == [i \in 1..(QuestionLength + 1) |-> IF i <= QuestionLength THEN "a" ELSE last]

LoggedRows ==
  { MessageRow("conv_1", KnownChatbot, "user", Hello),
    MessageRow("conv_1", KnownChatbot, "assistant", Hello),
    MessageRow("conv_1", KnownChatbot, "user", WhatsThePrice),
    MessageRow("conv_1", KnownChatbot, "user", Seven),
    MessageRow("conv_2", KnownChatbot, "user", LongQuestion("x")),
    MessageRow("conv_2", KnownChatbot, "user", LongQuestion("y")),
    MessageRow("conv_3", UnknownChatbot, "user", Hello) }

RECURSIVE Tables(_)
Tables(n) ==
  IF n = 0 THEN { << >> }
  ELSE Tables(n - 1) \cup
       { Append(t, row) : t \in { u \in Tables(n - 1) : Len(u) = n - 1 }, row \in LoggedRows }

\* twelve different questions, the oldest of them asked again at the end
ManyQuestions ==
  [i \in 1..13 |-> MessageRow("conv_1", KnownChatbot, "user",
                              <<"Q">> \o [j \in 1..(IF i = 13 THEN 1 ELSE i) |-> "?"])]

LoggedTables == Tables(MaxTableLen) \cup { ManyQuestions }

LoggedConversations ==
  { {}, { ConversationRow("conv_1", KnownChatbot), ConversationRow("conv_3", UnknownChatbot) } }

AnalyticsInit ==
  /\ \E s \in ChatStarts : env = s.env /\ file = s.file
  /\ serverPc = "boot"
  /\ chatbotConfigs = << >>
  /\ now = 0
  /\ createReq = [r \in CreateSlots |-> IdleCreate]
  /\ listed = None
  /\ chatReq = [r \in Requests |-> IdleChat]
  /\ messages \in LoggedTables
  /\ conversations \in LoggedConversations
  /\ analytics = None

AnalyticsNext ==
  \/ LoadConfigs
  \/ \E chatbotId \in {KnownChatbot, UnknownChatbot},
        windowStart \in 1..(Len(messages) + 1),
        started \in SUBSET conversations, convOk \in BOOLEAN, msgOk \in BOOLEAN :
       GetAnalytics(chatbotId, windowStart, started, convOk, msgOk)

AnalyticsSpec == AnalyticsInit /\ [][AnalyticsNext]_vars

(***************************************************************************)
(* Claims about the chat endpoint.                                         *)
(***************************************************************************)
Answered(r) == chatReq[r].pc = "done"

ProviderFailed(r) == Answered(r) /\ "provider" \in chatReq[r].failed

C2_UnknownTenantNotFound ==
  /\ [](\A r \in Requests :
          chatReq[r].pc \notin {"idle", "done"}
          => MapHas(chatbotConfigs, chatReq[r].chatbotId[1]))
  /\ [](\A i \in 1..Len(messages) : MapHas(chatbotConfigs, messages[i].chatbot_id))
  /\ [](\A row \in conversations : MapHas(chatbotConfigs, row.chatbot_id))
  /\ [][\A r \in Requests :
          /\ (chatReq[r].pc = "idle" /\ chatReq'[r].pc # "idle"
                /\ ~MapHas(chatbotConfigs, chatReq'[r].chatbotId[1]))
             => /\ chatReq'[r].pc = "done"
                /\ chatReq'[r].response = Some([status |-> 404,
                                               body |-> [error |-> "Chatbot not found"]])
                /\ messages' = messages
                /\ conversations' = conversations
          /\ chatReq[r].pc = "done" => chatReq'[r] = chatReq[r]]_vars

C2_Witness ==
  \E r \in Requests :
    /\ Answered(r)
    /\ ~MapHas(chatbotConfigs, chatReq[r].chatbotId[1])
    /\ chatReq[r].response[1].status = 404
    /\ Len(chatbotConfigs) > 0
    /\ Len(messages) > 0

\* C3: requests handled one after another: a request whose select and
\* update/insert did not fail creates the conversation with message_count 2
\* when there is none, and otherwise sets message_count to its prior value
\* plus exactly 2.
C3_UpsertAddsTwo ==
  [][\A r \in Requests :
       (chatReq[r].pc = "upsert" /\ chatReq'[r].pc = "done"
          /\ chatReq'[r].failed \cap {"select", "upsert"} = {})
       => LET c == chatReq[r].conversationId[1]
          IN /\ HasConversation(conversations', c)
             /\ ConversationOf(conversations', c).message_count =
                  IF HasConversation(conversations, c)
                  THEN ConversationOf(conversations, c).message_count + 2
                  ELSE 2]_vars

C3_Witness ==
  /\ \A r \in Requests : Answered(r) /\ chatReq[r].failed = {}
  /\ \E row \in conversations : row.id = "conv_1" /\ row.message_count >= 4

\* C4: a failure of the logging steps (user message, assistant message,
\* conversation select and update/insert) does not alter the reply: a request
\* whose provider call succeeded returns exactly the provider's reply, status 200.
C4_LogFailuresKeepReply ==
  \A r \in Requests :
    (Answered(r) /\ chatReq[r].botResponse # None)
    => chatReq[r].response =
         Some([status |-> 200, body |-> [response |-> chatReq[r].botResponse[1]]])

C4_Witness ==
  \E r \in Requests :
    /\ Answered(r)
    /\ chatReq[r].failed = {"user", "assistant", "select", "upsert"}
    /\ chatReq[r].botResponse \in { Some(reply) : reply \in Replies }
    /\ chatReq[r].response[1].status = 200

\* C11: within a conversation, the user message of a turn is appended to the
\* messages table before the assistant message of that turn, the assistant
\* message is appended only after the provider has returned the reply, and
\* every append puts the row after the rows already in the table.
C11_AppendOrder ==
  [][ /\ Len(messages') >= Len(messages)
      /\ SubSeq(messages', 1, Len(messages)) = messages
      /\ \A r \in Requests :
           LET req == chatReq[r]
           IN /\ (req.pc = "logUser" /\ chatReq'[r].pc # "logUser" /\ messages' # messages)
                 => /\ req.completion = None
                    /\ messages' = Append(messages,
                         [conversation_id |-> req.conversationId[1],
                          chatbot_id |-> req.chatbotId[1],
                          role |-> "user", content |-> req.userMessage[1]])
              /\ (req.pc = "logBot" /\ chatReq'[r].pc # "logBot" /\ messages' # messages)
                 => /\ req.completion # None
                    /\ messages' = Append(messages,
                         [conversation_id |-> req.conversationId[1],
                          chatbot_id |-> req.chatbotId[1],
                          role |-> "assistant", content |-> req.completion[1]])
                    /\ ("user" \notin req.failed
                        => \E i \in 1..Len(messages) :
                             messages[i] = [conversation_id |-> req.conversationId[1],
                                            chatbot_id |-> req.chatbotId[1],
                                            role |-> "user", content |-> req.userMessage[1]])
    ]_vars

\* two turns of one conversation that overlap: both user messages are in the
\* table before the first assistant message
C11_Witness ==
  /\ Len(messages) >= 4
  /\ \A i \in 1..4 : messages[i].conversation_id = "conv_1"
  /\ messages[1].role = "user" /\ messages[2].role = "user"
  /\ messages[3].role = "assistant" /\ messages[4].role = "assistant"

\* C12: the prompt gets the sales style exactly when the lower-cased message
\* has one of the pricing words (price, cost, rate, expensive), availability
\* words (available, book, reserve) or room words (room, bed, dorm, private)
\* as a substring, and the informational style otherwise; each of the three
\* tags depends on its own words only.
C12_SalesIffKeyword ==
  \A r \in Requests :
    chatReq[r].pc = "complete" =>
      LET text == chatReq[r].userMessage[1]
          lower == [i \in 1..Len(text) |->
                      IF \E k \in 1..26 : UpperCase[k] = text[i]
                      THEN LowerCase[CHOOSE k \in 1..26 : UpperCase[k] = text[i]]
                      ELSE text[i]]
          Has(words) == \E w \in words, i \in 1..Len(lower) :
                          /\ i + Len(w) - 1 <= Len(lower)
                          /\ SubSeq(lower, i, i + Len(w) - 1) = w
          pricing == { <<"p","r","i","c","e">>, <<"c","o","s","t">>, <<"r","a","t","e">>, <<"e","x","p","e","n","s","i","v","e">> }
          availability == { <<"a","v","a","i","l","a","b","l","e">>, <<"b","o","o","k">>, <<"r","e","s","e","r","v","e">> }
          room == { <<"r","o","o","m">>, <<"b","e","d">>, <<"d","o","r","m">>, <<"p","r","i","v","a","t","e">> }
      IN /\ chatReq[r].systemPrompt[1].style =
              IF Has(pricing) \/ Has(availability) \/ Has(room)
              THEN "Be enthusiastic and helpful" ELSE "Be friendly and helpful"
         /\ IsPriceInquiry(ToLowerCase(text)) <=> Has(pricing)
         /\ IsAvailabilityInquiry(ToLowerCase(text)) <=> Has(availability)
         /\ IsRoomInquiry(ToLowerCase(text)) <=> Has(room)

\* a message with a room word and no pricing or availability word got the
\* sales style, after a message with none of the words got the informational one
C12_Witness ==
  \E r \in Requests :
    /\ chatReq[r].pc = "complete"
    /\ chatReq[r].userMessage[1] = DormBeds
    /\ chatReq[r].systemPrompt[1].style = SalesStyle
    /\ IsRoomInquiry(ToLowerCase(DormBeds))
    /\ ~IsPriceInquiry(ToLowerCase(DormBeds))
    /\ ~IsAvailabilityInquiry(ToLowerCase(DormBeds))
    /\ \E i \in 1..Len(messages) : messages[i].content = Reservation

\* C13: topQuestions groups the user messages of the tenant in the window by
\* the first 100 characters of the content, counts each group, lists the
\* groups by count descending with ties in the order the groups first
\* occurred, and holds the 10 highest-count groups at most; assistant
\* messages count for nothing.
C13_TopQuestions ==
  [][ (analytics' # analytics /\ analytics'[1].response.status = 200) =>
      LET query == analytics'[1]
          top == query.response.body.topQuestions
          inWindow == { i \in query.windowStart..Len(messages) :
                          /\ messages[i].chatbot_id = query.chatbotId
                          /\ messages[i].role = "user" }
          Prefix(i) == SubSeq(messages[i].content, 1,
                              IF Len(messages[i].content) < 100
                              THEN Len(messages[i].content) ELSE 100)
          groups == { Prefix(i) : i \in inWindow }
          Size(g) == Cardinality({ i \in inWindow : Prefix(i) = g })
          \* the rows are read newest first
          FirstOccurrence(g) == CHOOSE i \in inWindow :
                                  Prefix(i) = g /\ \A j \in inWindow : Prefix(j) = g => j <= i
      IN /\ Len(top) = IF Cardinality(groups) < 10 THEN Cardinality(groups) ELSE 10
         /\ \A k \in 1..Len(top) :
              top[k].question \in groups /\ top[k].count = Size(top[k].question)
         /\ \A k, l \in 1..Len(top) :
              k < l => /\ top[k].question # top[l].question
                       /\ top[k].count >= top[l].count
                       /\ top[k].count = top[l].count
                          => FirstOccurrence(top[k].question) > FirstOccurrence(top[l].question)
         /\ \A g \in groups :
              (\A k \in 1..Len(top) : top[k].question # g)
              => \A k \in 1..Len(top) : Size(g) <= top[k].count
    ]_vars

\* C14: when the requests for one conversation id have all completed
\* successfully, however they overlapped, the message_count of the
\* conversation is twice their number.
C14_NoLostIncrement ==
  NoRequestInFlight =>
    \A conv \in {"conv_1", "conv_2"} :
      LET handled == { r \in Requests : /\ chatReq[r].pc = "done"
                                        /\ chatReq[r].conversationId = Some(conv) }
      IN (/\ handled # {}
          /\ \A r \in handled : /\ chatReq[r].response[1].status = 200
                                /\ chatReq[r].failed \subseteq {"conflict"})
         => \E row \in conversations :
              row.id = conv /\ row.message_count = 2 * Cardinality(handled)

\* C15: whenever no request is in flight, the message_count of a conversation
\* is the number of rows logged in the messages table for its id, and a
\* conversation with at least one logged message has a conversations row,
\* whether or not the provider call or a logging step failed on the way.
C15_CountIsLoggedMessages ==
  NoRequestInFlight =>
    \A conv \in {"conv_1", "conv_2"} :
      LET logged == Cardinality({ i \in 1..Len(messages) : messages[i].conversation_id = conv })
      IN /\ logged > 0 => \E row \in conversations : row.id = conv
         /\ \A row \in conversations : row.id = conv => row.message_count = logged

(***************************************************************************)
(* Claims about the config store, checked under StoreSpec.                 *)
(***************************************************************************)
FileBacked == env.CHATBOT_CONFIGS = Absent /\ ~env.VERCEL

Responded(r) == createReq[r].pc = "done"

Succeeded(r) == Responded(r) /\ createReq[r].response[1].status = 200

\* C5: a write failure of the snapshot during tenant creation is never surfaced:
\* the create still returns success with the new tenant id, and the new tenant
\* remains readable from the in-memory store.
C5_WriteFailureNotSurfaced ==
  [][\A r \in CreateSlots :
       (createReq[r].pc = "saving" /\ createReq'[r].pc = "done" /\ createReq'[r].saveError)
       => /\ createReq'[r].response = Some(CreateOk(createReq[r].chatbotId[1]))
          /\ MapHas(chatbotConfigs', createReq[r].chatbotId[1])]_vars

\* C6: in a file-backed deployment, whenever no create is in flight (no write
\* has failed and the creates returned distinct ids), loading the persisted
\* snapshot restores exactly the tenants in the store, so every tenant whose
\* create returned success is retrievable after a restart, also when creates
\* overlapped in time.
C6_SnapshotRestoresStore ==
  ( /\ FileBacked
    /\ serverPc = "listening"
    /\ \A r \in CreateSlots : createReq[r].pc \in {"idle", "done"}
    /\ \A r \in CreateSlots : ~createReq[r].saveError
    /\ \A r, q \in CreateSlots :
         (Succeeded(r) /\ Succeeded(q) /\ r # q)
         => createReq[r].response[1].body.chatbotId # createReq[q].response[1].body.chatbotId )
  => LET restored == loadConfigs(<< >>, env, file)
     IN /\ restored = chatbotConfigs
        /\ \A r \in CreateSlots :
             Succeeded(r) => MapHas(restored, createReq[r].response[1].body.chatbotId)

\* C7: round trip through the store: when create(x) returns success with id i,
\* get(i) is a config with id i, the clientName, businessName, businessInfo and
\* knowledgeBase of x and active = true; and no step of the running server
\* replaces or loses a tenant an earlier create stored.
C7_RoundTrip ==
  [][ /\ \A r \in CreateSlots :
           (createReq[r].pc = "saving" /\ createReq'[r].pc = "done"
              /\ createReq'[r].response[1].status = 200)
           => LET i == createReq'[r].response[1].body.chatbotId
                  x == createReq[r].body[1]
                  got == MapGet(chatbotConfigs', i)
              IN /\ got # None
                 /\ got[1].id = i
                 /\ got[1].clientName = x.clientName
                 /\ got[1].businessName = x.businessName
                 /\ got[1].businessInfo = x.businessInfo
                 /\ got[1].knowledgeBase = x.knowledgeBase
                 /\ got[1].active = TRUE
      /\ (serverPc = "listening" /\ serverPc' = "listening")
           => \A i \in 1..Len(chatbotConfigs) :
                MapGet(chatbotConfigs', chatbotConfigs[i].id) = Some(chatbotConfigs[i])
    ]_vars

\* C8: for every creation input, also one whose customization object lacks some
\* fields, the stored config's customization has a primaryColor and a
\* welcomeMessage.
C8_CustomizationDefaults ==
  \A i \in 1..Len(chatbotConfigs) :
    {"primaryColor", "welcomeMessage"} \subseteq DOMAIN chatbotConfigs[i].customization

\* C9: load never fails fatally; if the snapshot is absent or fails to parse the
\* store is empty after load, and no entry of a snapshot that did not load
\* completely is left in the store.
C9_LoadAllOrNothing ==
  [][(serverPc = "boot" /\ serverPc' # "boot")
     => /\ serverPc' = "listening"
        /\ (env.CHATBOT_CONFIGS = Absent /\ file.kind \in {"absent", "unparsable"})
             => chatbotConfigs' = << >>
        /\ \A snapshot \in {env.CHATBOT_CONFIGS, file} :
             (snapshot.kind = "array" /\ TryLoad(<< >>, snapshot).threw)
             => \A e \in Range(snapshot.elems) :
                  e # JsonNull => ~MapHas(chatbotConfigs', e.id)]_vars

SafeFields == {"id", "clientName", "businessName", "createdAt", "active"}

\* C10: in every reachable state, each entry list() returns has exactly the
\* fields id, clientName, businessName, createdAt and active (never businessInfo
\* or knowledgeBase), and list() returns one entry per stored tenant.
C10_ListSafeSubset ==
  /\ LET l == ListChatbots(chatbotConfigs)
     IN /\ Len(l) = Cardinality({ c.id : c \in Range(chatbotConfigs) })
        /\ \A i \in 1..Len(l) :
             /\ DOMAIN l[i] = SafeFields
             /\ l[i].id = chatbotConfigs[i].id
  /\ listed # None => \A i \in 1..Len(listed[1]) : DOMAIN listed[1][i] = SafeFields

C10_Witness ==
  /\ listed # None
  /\ Len(listed[1]) >= 2
  /\ listed[1] = ListChatbots(chatbotConfigs)
  /\ \E r \in CreateSlots : Succeeded(r)
  /\ \A i \in 1..Len(chatbotConfigs) : "businessInfo" \in DOMAIN chatbotConfigs[i]

=============================================================================
